---- MODULE Spec2Model ----
(***************************************************************************)
(* Buckshot clustering (buckshot.py): HAC with centroid linkage over a     *)
(* random sample of int(sqrt(n)) rows, then a single nearest-centroid pass *)
(* over the remaining rows.                                                *)
(*                                                                         *)
(* Conventions of the model                                                *)
(*   - Sequences are 1-based; a Python index p is the model index p + 1.   *)
(*   - A float64 is an exact rational <<num, den>> with den >= 0; np.inf   *)
(*     is <<1, 0>>.  Comparisons cross-multiply.                           *)
(*   - A distance is held as its radicand (the accumulated "dist" before   *)
(*     math.sqrt) together with a flag telling whether the root was taken; *)
(*     sqrt is strictly increasing, so min, == and <= on roots are those   *)
(*     of the radicands.                                                   *)
(*   - A pandas Series is a function from attribute names to values; a     *)
(*     row of a DataFrame is [name |-> index label, data |-> Series].      *)
(***************************************************************************)
EXTENDS Integers, Sequences, FiniteSets, TLC

\* ------------------------------------------------------------- bounds
\* Largest dataset size (number of rows of self.df).
MaxN == 9
\* Largest target cluster count; the smallest one tried is -1.
MaxK == 4
\* Largest offset of the dataset's first row into Table.
MaxOff == 1
\* Largest continuous value of a Series handed to distance() directly.
MaxAge == 2

\* ------------------------------------------------------------- data
\* Columns of the preprocessed data frame and their dtypes.
ContinuousAttrs == {"age"}
NominalAttrs == {"sex"}
Attrs == ContinuousAttrs \cup NominalAttrs

\* Sort order of the nominal tokens (pandas sorts the modes it returns).
NominalOrder == <<"Female", "Male">>

Rat(n) == <<n, 1>>
Inf == <<1, 0>>

\* The preprocessed rows the configured dataset yields, in file order.
Table ==
  << [age |-> Rat(0), sex |-> "Female"], [age |-> Rat(2), sex |-> "Female"],
     [age |-> Rat(1), sex |-> "Female"], [age |-> Rat(3), sex |-> "Male"],
     [age |-> Rat(0), sex |-> "Male"],   [age |-> Rat(1), sex |-> "Female"],
     [age |-> Rat(2), sex |-> "Male"],   [age |-> Rat(0), sex |-> "Female"],
     [age |-> Rat(3), sex |-> "Male"],   [age |-> Rat(1), sex |-> "Male"],
     [age |-> Rat(3), sex |-> "Female"], [age |-> Rat(2), sex |-> "Male"] >>

\* The data frame of n rows after load_df: labels 1..n (a RangeIndex), the
\* rows those of Table from offset off on.
LoadDf(n, off) ==
  [p \in 1..n |-> [name |-> p, data |-> Table[((p + off - 1) % Len(Table)) + 1]]]

\* ------------------------------------------------------------- rationals
RatAdd(a, b) == <<a[1] * b[2] + b[1] * a[2], a[2] * b[2]>>
RatSub(a, b) == <<a[1] * b[2] - b[1] * a[2], a[2] * b[2]>>
RatMul(a, b) == <<a[1] * b[1], a[2] * b[2]>>
RatEq(a, b) == a[1] * b[2] = b[1] * a[2]
RatLt(a, b) == a[1] * b[2] < b[1] * a[2]
RatLe(a, b) == a[1] * b[2] <= b[1] * a[2]

\* ------------------------------------------------------------- distance
RECURSIVE SumOver(_, _, _)
\* dist accumulated over the attributes S of x: (j - k) ** 2 each, with a
\* nominal pair rewritten to (0, 0) on a match and (0, 1) on a mismatch.
SumOver(S, x, y) ==
  IF S = {} THEN Rat(0)
  ELSE LET i == CHOOSE a \in S : TRUE
           term == IF i \in NominalAttrs
                   THEN (IF x[i] = y[i] THEN Rat(0) ELSE Rat(1))
                   ELSE RatMul(RatSub(x[i], y[i]), RatSub(x[i], y[i]))
       IN RatAdd(term, SumOver(S \ {i}, x, y))

\* distance(x, y, squared): iterates x's items and looks each label up in y.
Distance(x, y, squared) ==
  IF \E i \in DOMAIN x : i \notin DOMAIN y
  THEN [err |-> "KeyError", rad |-> Rat(0), root |-> FALSE]
  ELSE [err |-> "none", rad |-> SumOver(DOMAIN x, x, y), root |-> ~squared]

\* ------------------------------------------------------------- Cluster
\* A Cluster is [values |-> the rows of its DataFrame, in order,
\*               centroid |-> the Series computed from them].
\* The left/right links merge_clusters keeps are read by no operation.

RECURSIVE ColumnSum(_, _)
\* Sum of column attr over the rows.
ColumnSum(rows, attr) ==
  IF rows = <<>> THEN Rat(0)
  ELSE RatAdd(Head(rows).data[attr], ColumnSum(Tail(rows), attr))

\* values[continuous].mean(): sum over count, per column.
Mean(rows, attr) ==
  LET s == ColumnSum(rows, attr) IN <<s[1], s[2] * Len(rows)>>

Count(rows, attr, v) ==
  Cardinality({p \in 1..Len(rows) : rows[p].data[attr] = v})

\* values[nominal].mode(), then the fallback of lines 102-108: the modes are
\* the tokens occurring most often and at least twice, in sorted order; with
\* none, the first row's token stands in.
Mode(rows, attr) ==
  LET top == CHOOSE c \in 0..Len(rows) :
               /\ \E q \in 1..Len(NominalOrder) : Count(rows, attr, NominalOrder[q]) = c
               /\ \A q \in 1..Len(NominalOrder) : Count(rows, attr, NominalOrder[q]) <= c
      modes == SelectSeq(NominalOrder, LAMBDA v : Count(rows, attr, v) = top)
  IN IF top < 2 THEN rows[1].data[attr] ELSE modes[1]

\* Cluster.calculate_centroid: mean of the continuous columns joined with the
\* mode of the nominal ones.
CalculateCentroid(rows) ==
  [a \in Attrs |-> IF a \in ContinuousAttrs THEN Mean(rows, a) ELSE Mode(rows, a)]

\* Cluster.__init__ on a Series (one row) or on a DataFrame (its copy).
NewCluster(rows) == [values |-> rows, centroid |-> CalculateCentroid(rows)]

\* Cluster.add without the call of calculate_centroid.
Add_StaleCentroid(self, new_values) ==
  [values |-> self.values \o new_values, centroid |-> self.centroid]

\* Cluster.add: append the new rows, then recompute the centroid.
Add(self, new_values) ==
  [values |-> self.values \o new_values,
   centroid |-> CalculateCentroid(self.values \o new_values)]

\* Cluster.merge_clusters replacing this cluster's rows by the other's.
MergeClusters_Replace(self, new_cluster) == NewCluster(new_cluster.values)

\* Cluster.merge_clusters: add the other cluster's rows to this one.
MergeClusters(self, new_cluster) == Add(self, new_cluster.values)

\* ------------------------------------------------------------- Buckshot
VARIABLES
  df,         \* self.df, the preprocessed data frame
  k,          \* self.k
  sqrt_n,     \* self.sqrt_n
  random,     \* self.random, the sampled rows in the order drawn
  remaining,  \* self.remaining, the other rows in file order
  clusters,   \* self.clusters
  matrix,     \* self.matrix (rows of radicands; Inf on the diagonal)
  min_x,      \* hac's min_x, as a model index
  min_y,      \* hac's min_y, as a model index
  i,          \* number of k_means iterations completed
  pc,         \* "hac", "init_matrix", "merge", "k_means", "done", "fault"
  error,      \* the exception that ended the run, or "none"
  call        \* a direct call of distance(x, y, squared) and its outcome

vars == <<df, k, sqrt_n, random, remaining, clusters, matrix, min_x, min_y,
          i, pc, error, call>>

NoCall == [x |-> <<>>, y |-> <<>>, squared |-> FALSE, state |-> "idle",
           result |-> [err |-> "none", rad |-> Rat(0), root |-> FALSE]]

KValues == (0 - 1)..MaxK

\* Buckshot.__init__ followed by preprocess(): k is the caller's, the data
\* frame is the configured dataset's.
Init ==
  /\ \E n \in 1..MaxN, off \in 0..MaxOff : df = LoadDf(n, off)
  /\ k \in KValues
  /\ sqrt_n = 0
  /\ random = <<>>
  /\ remaining = <<>>
  /\ clusters = <<>>
  /\ matrix = <<>>
  /\ min_x = 0
  /\ min_y = 0
  /\ i = 0
  /\ pc = "hac"
  /\ error = "none"
  /\ call = NoCall

\* round(sqrt(n)): no square root of an integer ends in .5.
RoundSqrt(n) ==
  CHOOSE r \in 0..(n + 1) :
    (2 * r - 1) * (2 * r - 1) < 4 * n /\ 4 * n < (2 * r + 1) * (2 * r + 1)

\* int(math.sqrt(n))
IntSqrt(n) == CHOOSE s \in 0..n : s * s <= n /\ n < (s + 1) * (s + 1)

\* random.sample(population, m): m distinct labels, in any order.
Samples(n, m) ==
  {s \in [1..m -> 1..n] : \A a, b \in 1..m : a # b => s[a] # s[b]}

Range(s) == {s[p] : p \in 1..Len(s)}

\* self.df.ix[rows]: the rows labelled rows, in that order.
Ix(frame, rows) == [p \in 1..Len(rows) |-> frame[rows[p]]]

\* self.df.drop(rows) dropping nothing.
Drop_Nothing(frame, rows) == frame

\* self.df.drop(rows): the frame without the rows labelled rows.
Drop(frame, rows) == SelectSeq(frame, LAMBDA r : r.name \notin Range(rows))

\* Buckshot.get_random_samples
GetRandomSamples ==
  /\ pc = "hac"
  /\ LET n == Len(df)
         m == IntSqrt(n)
     IN /\ sqrt_n' = m
        /\ \E rows \in Samples(n, m) :
             /\ random' = Ix(df, rows)
             /\ remaining' = Drop(df, rows)
  /\ pc' = "init_matrix"
  /\ UNCHANGED <<df, k, clusters, matrix, min_x, min_y, i, error, call>>

\* np.fill_diagonal(matrix, v)
FillDiagonal(m, v) ==
  [a \in 1..Len(m) |-> [b \in 1..Len(m) |-> IF a = b THEN v ELSE m[a][b]]]

\* Buckshot.init_matrix: one cluster per sampled row, row-to-row distances.
InitMatrix ==
  /\ pc = "init_matrix"
  /\ LET n == Len(random)
     IN /\ clusters' = [n1 \in 1..n |-> NewCluster(<<random[n1]>>)]
        /\ matrix' = FillDiagonal(
                       [n1 \in 1..n |-> [n2 \in 1..n |->
                          Distance(random[n1].data, random[n2].data, FALSE).rad]],
                       Inf)
  /\ pc' = "merge"
  /\ UNCHANGED <<df, k, sqrt_n, random, remaining, min_x, min_y, i, error, call>>

\* The distance matrix rebuilt by update_matrix from the clusters' centroids.
UpdateMatrix(cs) ==
  FillDiagonal(
    [i1 \in 1..Len(cs) |-> [i2 \in 1..Len(cs) |->
       Distance(cs[i1].centroid, cs[i2].centroid, FALSE).rad]],
    Inf)

\* matrix.min()
MatrixMin(m) ==
  LET cells == {<<a, b>> : a \in 1..Len(m), b \in 1..Len(m)}
      c == CHOOSE c \in cells : \A d \in cells : RatLe(m[c[1]][c[2]], m[d[1]][d[2]])
  IN m[c[1]][c[2]]

\* np.where(matrix == matrix.min())[0]: the row index of every minimal cell,
\* in row-major order.
WhereRows(m) ==
  LET n == Len(m)
      lo == MatrixMin(m)
      flat == [p \in 1..(n * n) |-> <<((p - 1) \div n) + 1, ((p - 1) % n) + 1>>]
      hits == SelectSeq(flat, LAMBDA c : RatEq(m[c[1]][c[2]], lo))
  IN [p \in 1..Len(hits) |-> hits[p][1]]

\* list.pop(p)
Pop(s, p) == [q \in 1..(Len(s) - 1) |-> IF q < p THEN s[q] ELSE s[q + 1]]

\* One iteration of hac's while loop: select, pop, merge, update_matrix.
HacIteration ==
  /\ pc = "merge"
  /\ Len(clusters) > k
  /\ LET minimum == WhereRows(matrix)
     IN IF Len(minimum) < 2
        THEN \* minimum[1] is out of range
             /\ min_x' = minimum[1]
             /\ pc' = "fault"
             /\ error' = "IndexError"
             /\ UNCHANGED <<min_y, clusters, matrix>>
        ELSE LET to_merge == clusters[minimum[2]]
                 rest == Pop(clusters, minimum[2])
             IN /\ min_x' = minimum[1]
                /\ min_y' = minimum[2]
                /\ IF minimum[1] > Len(rest)
                   THEN \* self.clusters[min_x] is out of range after the pop
                        /\ clusters' = rest
                        /\ pc' = "fault"
                        /\ error' = "IndexError"
                        /\ UNCHANGED matrix
                   ELSE /\ clusters' = [rest EXCEPT ![minimum[1]] =
                                          MergeClusters(@, to_merge)]
                        /\ matrix' = UpdateMatrix(clusters')
                        /\ UNCHANGED <<pc, error>>
  /\ UNCHANGED <<df, k, sqrt_n, random, remaining, i, call>>

\* hac's loop condition fails; run() goes on to k_means.
HacReturn ==
  /\ pc = "merge"
  /\ ~(Len(clusters) > k)
  /\ pc' = "k_means"
  /\ UNCHANGED <<df, k, sqrt_n, random, remaining, clusters, matrix, min_x,
                 min_y, i, error, call>>

\* The last minimum instead of the first.
FirstMin_Last(distances) ==
  CHOOSE c \in 1..Len(distances) :
    /\ \A d \in 1..Len(distances) : RatLe(distances[c], distances[d])
    /\ \A d \in (c + 1)..Len(distances) : ~RatEq(distances[d], distances[c])

\* np.where(distances == distances.min())[0][0]
FirstMin(distances) ==
  CHOOSE c \in 1..Len(distances) :
    /\ \A d \in 1..Len(distances) : RatLe(distances[c], distances[d])
    /\ \A d \in 1..(c - 1) : ~RatEq(distances[d], distances[c])

\* One iteration of k_means' for loop.
KMeansIteration ==
  /\ pc = "k_means"
  /\ i < Len(remaining)
  /\ LET row == remaining[i + 1]
         distances == [c \in 1..Len(clusters) |->
                         Distance(row.data, clusters[c].centroid, FALSE).rad]
         min_dist == FirstMin(distances)
     IN clusters' = [clusters EXCEPT ![min_dist] = Add(@, <<row>>)]
  /\ i' = i + 1
  /\ UNCHANGED <<df, k, sqrt_n, random, remaining, matrix, min_x, min_y, pc,
                 error, call>>

\* k_means' loop is exhausted; run() returns.
KMeansReturn ==
  /\ pc = "k_means"
  /\ ~(i < Len(remaining))
  /\ pc' = "done"
  /\ UNCHANGED <<df, k, sqrt_n, random, remaining, clusters, matrix, min_x,
                 min_y, i, error, call>>

Next ==
  \/ GetRandomSamples
  \/ InitMatrix
  \/ HacIteration
  \/ HacReturn
  \/ KMeansIteration
  \/ KMeansReturn

Spec == Init /\ [][Next]_vars

\* ------------------------------------------------------------- distance()
\* called directly, on Series of any schema over the columns.
AgeValues == {Rat(a) : a \in 0..MaxAge}
Tokens == {NominalOrder[q] : q \in 1..Len(NominalOrder)}

SeriesOver(S) ==
  IF S = {} THEN {[a \in {} |-> Rat(0)]}
  ELSE IF S = {"age"} THEN {[age |-> a] : a \in AgeValues}
  ELSE IF S = {"sex"} THEN {[sex |-> t] : t \in Tokens}
  ELSE {[age |-> a, sex |-> t] : a \in AgeValues, t \in Tokens}

InitDist ==
  /\ df = LoadDf(1, 0)
  /\ k = 1
  /\ sqrt_n = 0
  /\ random = <<>>
  /\ remaining = <<>>
  /\ clusters = <<>>
  /\ matrix = <<>>
  /\ min_x = 0
  /\ min_y = 0
  /\ i = 0
  /\ pc = "hac"
  /\ error = "none"
  /\ \E S \in SUBSET Attrs, T \in SUBSET Attrs :
       \E x \in SeriesOver(S), y \in SeriesOver(T), squared \in BOOLEAN :
         call = [NoCall EXCEPT !.x = x, !.y = y, !.squared = squared,
                               !.state = "called"]

\* distance(x, y, squared) runs: it returns, or the KeyError is re-raised.
DistanceCall ==
  /\ call.state = "called"
  /\ LET r == Distance(call.x, call.y, call.squared)
     IN call' = [call EXCEPT !.result = r,
                             !.state = IF r.err = "none" THEN "returned"
                                       ELSE "raised"]
  /\ UNCHANGED <<df, k, sqrt_n, random, remaining, clusters, matrix, min_x,
                 min_y, i, pc, error>>

NextDist == DistanceCall

SpecDist == InitDist /\ [][NextDist]_vars

\* ------------------------------------------------------------- properties
\* Number of rows held by all clusters together.
RECURSIVE TotalSize(_)
TotalSize(cs) == IF cs = <<>> THEN 0 ELSE Len(Head(cs).values) + TotalSize(Tail(cs))

\* Index labels of the rows of a frame.
Labels(frame) == {frame[p].name : p \in 1..Len(frame)}

ClusterLabels == UNION {Labels(clusters[c].values) : c \in 1..Len(clusters)}

\* The sampling has been done.
Sampled == pc # "hac"
\* The clusters and the matrix exist.
InHac == pc \in {"merge", "k_means", "done", "fault"}
\* hac's loop has ended.
HacEnded == pc \in {"k_means", "done", "fault"}

\* A step of hac's loop that merged: the absorbed cluster was at index
\* min_y', the surviving one at index Survivor before the pop.
Merged == pc = "merge" /\ Len(clusters') = Len(clusters) - 1
Survivor == IF min_x' < min_y' THEN min_x' ELSE min_x' + 1

\* C1: in hac's loop the cluster count drops by exactly 1 per iteration, the
\* loop ends with exactly k clusters whenever k <= the sample size, and with
\* k >= the sample size it merges nothing and leaves sample-size clusters.
C1_HacEndsWithK ==
  /\ [][(pc = "merge" /\ Len(clusters) > k) =>
          (pc' = "merge" /\ Len(clusters') = Len(clusters) - 1)]_vars
  /\ [](HacEnded /\ k <= sqrt_n => error = "none" /\ Len(clusters) = k)
  /\ [](HacEnded /\ k >= sqrt_n => Len(clusters) = sqrt_n /\ min_y = 0)

\* The part of C1 that holds: for a target count k >= 1.
C1_ValidK ==
  /\ [][(pc = "merge" /\ Len(clusters) > k /\ k >= 1) =>
          (pc' = "merge" /\ Len(clusters') = Len(clusters) - 1)]_vars
  /\ [](HacEnded /\ k >= 1 /\ k <= sqrt_n => error = "none" /\ Len(clusters) = k)
  /\ [](HacEnded /\ k >= sqrt_n => Len(clusters) = sqrt_n /\ min_y = 0)

\* The matrix is symmetric with an infinite diagonal.
SymmetricInfDiagonal ==
  InHac =>
    /\ Len(matrix) = Len(clusters)
    /\ \A a, b \in 1..Len(matrix) :
         /\ RatEq(matrix[a][b], matrix[b][a])
         /\ (a = b) = (matrix[a][b] = Inf)

\* C2: at every step of HAC the matrix is symmetric with the infinite
\* sentinel on its diagonal, and the two indices a merge iteration selects are
\* distinct (no diagonal cell is selected).  Stated for a valid target count
\* (k >= 1), where no run faults.
C2_SymmetricAndDistinct ==
  /\ SymmetricInfDiagonal
  /\ (k >= 1 /\ min_y # 0) => min_x # min_y

\* A hac iteration selected the same index twice and still merged.
C2_TieSelected == pc = "merge" /\ k >= 1 /\ min_y # 0 /\ min_x = min_y

\* The distance k_means computes from a row to a cluster's centroid.
RowDist(row, c) == Distance(row.data, c.centroid, FALSE).rad

\* C3: each k_means iteration takes the next row of the remainder in order
\* and adds it to the lowest-index cluster whose centroid, as it stands at
\* that moment, is nearest to the row; no other cluster changes, and the
\* chosen cluster's centroid is recomputed within the iteration.
C3_NearestFirstMin ==
  [][(pc = "k_means" /\ i < Len(remaining)) =>
       /\ i' = i + 1
       /\ Len(clusters') = Len(clusters)
       /\ LET row == remaining[i + 1]
          IN \E c \in 1..Len(clusters) :
               /\ clusters'[c].values = Append(clusters[c].values, row)
               /\ clusters'[c].centroid = CalculateCentroid(clusters'[c].values)
               /\ \A d \in 1..Len(clusters) :
                    /\ RatLe(RowDist(row, clusters[c]), RowDist(row, clusters[d]))
                    /\ d < c => RatLt(RowDist(row, clusters[c]), RowDist(row, clusters[d]))
                    /\ d # c => clusters'[d] = clusters[d]]_vars

\* The cluster that took the last row assigned, before it took the row.
Before(c) ==
  LET rows == SubSeq(clusters[c].values, 1, Len(clusters[c].values) - 1)
  IN NewCluster(rows)

\* The last row assigned was equally near a later cluster and went to the
\* earlier one, whose centroid moved when it took the row.
C3_TieAssigned ==
  /\ pc = "k_means"
  /\ i >= 1
  /\ \E c, d \in 1..Len(clusters) :
       /\ c < d
       /\ Len(clusters[c].values) >= 2
       /\ clusters[c].values[Len(clusters[c].values)] = remaining[i]
       /\ RatEq(RowDist(remaining[i], Before(c)), RowDist(remaining[i], clusters[d]))
       /\ ~RatEq(Before(c).centroid["age"], clusters[c].centroid["age"])

\* C4: the sample and the remainder are disjoint and cover the dataset; the
\* clusters hold every sampled row and every remainder row assigned so far
\* exactly once, at every step of HAC and of the assignment; after a
\* complete run every row of the dataset is in exactly one cluster and the
\* cluster sizes sum to N.
C4_Conservation ==
  /\ Sampled =>
       /\ Labels(random) \cap Labels(remaining) = {}
       /\ Labels(random) \cup Labels(remaining) = Labels(df)
       /\ Len(random) + Len(remaining) = Len(df)
  /\ InHac =>
       /\ ClusterLabels = Labels(random) \cup {remaining[q].name : q \in 1..i}
       /\ TotalSize(clusters) = Cardinality(ClusterLabels)
       /\ \A c \in 1..Len(clusters) :
            \A p \in 1..Len(clusters[c].values) :
              clusters[c].values[p] = df[clusters[c].values[p].name]
  /\ pc = "done" =>
       /\ ClusterLabels = Labels(df)
       /\ TotalSize(clusters) = Len(df)

\* A complete run that sampled three rows, merged, and assigned the rest.
C4_CompleteRun ==
  /\ pc = "done"
  /\ Len(random) = 3
  /\ Len(clusters) = 2
  /\ Len(remaining) >= 6

\* Every cluster's continuous centroid attributes are the means of its
\* current members' values.
CentroidFresh ==
  \A c \in 1..Len(clusters) :
    \A a \in ContinuousAttrs :
      LET n == Len(clusters[c].values)
          s == ColumnSum(clusters[c].values, a)
      IN /\ n >= 1
         /\ clusters[c].centroid[a][2] # 0
         /\ clusters[c].centroid[a][1] * n * s[2] = s[1] * clusters[c].centroid[a][2]

\* C5: an add raises the cluster's member count by exactly 1, and after
\* every add and every merge each cluster's centroid is the mean of its
\* current members (never stale).
C5_AddCountsAndCentroid ==
  /\ []CentroidFresh
  /\ [][(pc = "k_means" /\ i' = i + 1) =>
          \E c \in 1..Len(clusters) :
            /\ Len(clusters'[c].values) = Len(clusters[c].values) + 1
            /\ \A d \in 1..Len(clusters) :
                 d # c => Len(clusters'[d].values) = Len(clusters[d].values)]_vars

\* A merged cluster took a row whose value differs from its mean.
C5_CentroidMoved ==
  /\ pc = "k_means"
  /\ i >= 1
  /\ \E c \in 1..Len(clusters) :
       /\ Len(clusters[c].values) >= 3
       /\ clusters[c].values[Len(clusters[c].values)] = remaining[i]
       /\ ~RatEq(Before(c).centroid["age"], clusters[c].centroid["age"])

\* C6: a merge leaves the surviving cluster with its own rows followed by
\* the absorbed cluster's rows, so its count is the sum of the two counts;
\* every other cluster is untouched.
C6_MergeConcatenates ==
  [][Merged =>
       /\ clusters'[min_x'].values =
            clusters[Survivor].values \o clusters[min_y'].values
       /\ Len(clusters'[min_x'].values) =
            Len(clusters[Survivor].values) + Len(clusters[min_y'].values)
       /\ TotalSize(clusters') = TotalSize(clusters)
       /\ \A d \in 1..Len(clusters') :
            d # min_x' => \E e \in 1..Len(clusters) : clusters'[d] = clusters[e]]_vars

\* A second merge happened: a two-row cluster and a single row were joined.
C6_MergedThree ==
  /\ pc = "merge"
  /\ min_y # 0
  /\ \E c \in 1..Len(clusters) : Len(clusters[c].values) = 3

\* C7: a target count k <= 0 is rejected before the merge loop; it never
\* shows up as an indexing fault inside the loop.
C7_InvalidKRejected == k <= 0 => error = "none" /\ min_x = 0

\* C8: distance(x, y) raises a KeyError whenever one operand has an
\* attribute the other lacks, whichever operand holds it.
C8_KeyMismatchRaises ==
  (call.state # "called" /\ DOMAIN call.x # DOMAIN call.y) =>
     (call.state = "raised" /\ call.result.err = "KeyError")

\* What distance does: it raises exactly when x has a label y lacks.
C8_RaisesWhenXHasExtra ==
  call.state # "called" =>
     ((call.state = "raised") = (\E a \in DOMAIN call.x : a \notin DOMAIN call.y))

\* C9: every merge joins a globally closest pair: the matrix cell of the
\* surviving and the absorbed cluster's indices before the pop is the
\* matrix's minimum.  Stated for a valid target count (k >= 1).
C9_MergesClosestPair ==
  [][(Merged /\ k >= 1) =>
       RatEq(matrix[Survivor][min_y'], MatrixMin(matrix))]_vars

\* C10 as stated: the sample has round(sqrt(N)) distinct rows and the
\* remainder the other N - round(sqrt(N)).
C10_SampleIsRoundSqrt ==
  Sampled =>
    /\ Len(random) = RoundSqrt(Len(df))
    /\ Cardinality(Labels(random)) = Len(random)
    /\ Len(remaining) = Len(df) - RoundSqrt(Len(df))

\* C10 amended: the sample has floor(sqrt(N)) distinct rows and the
\* remainder the other N - floor(sqrt(N)).
C10_SampleIsFloorSqrt ==
  Sampled =>
    /\ Len(random) * Len(random) <= Len(df)
    /\ Len(df) < (Len(random) + 1) * (Len(random) + 1)
    /\ sqrt_n = Len(random)
    /\ Cardinality(Labels(random)) = Len(random)
    /\ Len(remaining) = Len(df) - Len(random)

\* A dataset of 8 rows was sampled: sqrt(8) = 2.83, two rows drawn.
C10_SampledEight == Sampled /\ Len(df) = 8 /\ Len(random) = 2 /\ Len(remaining) = 6

====
